---- MODULE Spec2Model ----
(***************************************************************************)
(* Model of final_timetable_generator.py: class TimetableGenerator.        *)
(*                                                                         *)
(* The program builds a CP-SAT model with one boolean variable per         *)
(* (section, day, period, course), adds seven groups of linear             *)
(* constraints, calls the solver once and, when the solver reports         *)
(* OPTIMAL or FEASIBLE, copies the valuation into self.solution.           *)
(*                                                                         *)
(* The solver is a library call.  It is modelled by what it guarantees:    *)
(* a status, and with OPTIMAL/FEASIBLE a valuation of the variables that   *)
(* satisfies every constraint that was added to the model.  The            *)
(* valuations the solver may hand back are drawn from a bounded family:    *)
(* one concrete timetable (SeedRows) and every valuation that differs from *)
(* it by one edit (a swap of two cells, a move, a drop or an addition of   *)
(* one course variable) inside the first WindowDays days.                  *)
(***************************************************************************)
EXTENDS Integers, Sequences, FiniteSets, TLC

VARIABLES
    include_free_periods,   \* self.include_free_periods
    courses,                \* self.courses, in insertion order
    fixed_slots,            \* self.fixed_slots
    assign,                 \* keys of self.assign: the variables created
    constraints,            \* constraint groups added to self.model
    status,                 \* status returned by solver.Solve
    value,                  \* solver.Value: the valuation after Solve
    solution,               \* self.solution
    solve_ret,              \* value returned by solve()
    printed,                \* what print_timetable wrote
    html,                   \* what generate_html did
    run_ret,                \* value returned by run()
    error,                  \* the exception that left run(), if any
    pc                      \* position in run()

vars == <<include_free_periods, courses, fixed_slots, assign, constraints, status,
          value, solution, solve_ret, printed, html, run_ret, error, pc>>

(***************************************************************************)
(* Domain model (__init__)                                                 *)
(***************************************************************************)
days == <<"Mon", "Tue", "Wed", "Thu", "Fri", "Sat">>

DaySet == {days[i] : i \in 1..Len(days)}

periods == 1..7

sections == {"A", "B"}

Cells == sections \X DaySet \X periods

BaseCourses ==
    << [id |-> "PAS",      weekly_count |-> 5, is_lab |-> FALSE, teacher |-> "Ms. Sowmiya"],
       [id |-> "OS",       weekly_count |-> 6, is_lab |-> FALSE, teacher |-> "Ms. K.Sudha"],
       [id |-> "ML",       weekly_count |-> 5, is_lab |-> FALSE, teacher |-> "Mr. Dinesh Kumar"],
       [id |-> "FDSA",     weekly_count |-> 5, is_lab |-> FALSE, teacher |-> "Ms. Deepika"],
       [id |-> "CN",       weekly_count |-> 6, is_lab |-> FALSE, teacher |-> "Ms. Kirupavathy"],
       [id |-> "EVS",      weekly_count |-> 4, is_lab |-> FALSE, teacher |-> "Ms. Sophia"],
       [id |-> "FDSA_LAB", weekly_count |-> 2, is_lab |-> TRUE,  teacher |-> "Ms. Deepika"],
       [id |-> "ML_LAB",   weekly_count |-> 2, is_lab |-> TRUE,  teacher |-> "Mr. Dinesh Kumar"],
       [id |-> "PD",       weekly_count |-> 2, is_lab |-> FALSE, teacher |-> "Ms. Kirupavathy"],
       [id |-> "LIB",      weekly_count |-> 1, is_lab |-> FALSE, teacher |-> "Ms. Kirupavathy"],
       [id |-> "ACT",      weekly_count |-> 2, is_lab |-> FALSE, teacher |-> "All Staff"] >>

FreeCourse ==
    [id |-> "FREE", weekly_count |-> 2, is_lab |-> FALSE, teacher |-> "None"]

CoursesOf(free) == IF free THEN Append(BaseCourses, FreeCourse) ELSE BaseCourses

DefaultFixedSlots ==
    { <<"A", "Tue", 2, "PD">>,  <<"A", "Fri", 4, "PD">>,
      <<"B", "Tue", 3, "PD">>,  <<"B", "Fri", 5, "PD">>,
      <<"A", "Thu", 6, "LIB">>, <<"B", "Thu", 7, "LIB">>,
      <<"A", "Fri", 7, "ACT">>, <<"B", "Sat", 7, "ACT">> }

\* Views of the catalog held in self.courses.
CourseIds == {courses[i].id : i \in 1..Len(courses)}

CourseIndex(c) == CHOOSE i \in 1..Len(courses) : courses[i].id = c

CourseDef(c) == courses[CourseIndex(c)]

\* A course identifier that contains the substring 'LAB' (line 129).
HasLabInName(c) == c \in {"FDSA_LAB", "ML_LAB"}

(***************************************************************************)
(* Valuations.  A valuation maps every cell to the set of courses whose    *)
(* variable is 1 there.  Val is solver.Value(self.assign[(s,d,p,c)]).      *)
(***************************************************************************)
Val(v, s, d, p, c) == IF c \in v[<<s, d, p>>] THEN 1 ELSE 0

\* sum(...) over a set of variable keys: the number of them that are 1.
NumTrue(v, keys) == Cardinality({k \in keys : Val(v, k[1], k[2], k[3], k[4]) = 1})

(***************************************************************************)
(* Constraint groups of add_constraints, as predicates on a valuation.     *)
(***************************************************************************)
\* Rule 1 written with <= whether or not free periods are included.
SlotCoverageAtMostOne(v) ==
    \A s \in sections : \A d \in DaySet : \A p \in periods :
        NumTrue(v, {<<s, d, p, c>> : c \in CourseIds}) <= 1

\* Rule 1 with the two branches exchanged.
SlotCoverageSwapped(v) ==
    \A s \in sections : \A d \in DaySet : \A p \in periods :
        LET n == NumTrue(v, {<<s, d, p, c>> : c \in CourseIds})
        IN  IF include_free_periods THEN n = 1 ELSE n <= 1

\* 1. Exactly one course per slot per section (at most one with free periods).
SlotCoverage(v) ==
    \A s \in sections : \A d \in DaySet : \A p \in periods :
        LET n == NumTrue(v, {<<s, d, p, c>> : c \in CourseIds})
        IN  IF include_free_periods THEN n <= 1 ELSE n = 1

\* Rule 2 written with <= in place of ==.
CourseCountsAtMost(v) ==
    \A s \in sections : \A i \in 1..Len(courses) :
        NumTrue(v, {<<s, d, p, courses[i].id>> : d \in DaySet, p \in periods})
            <= courses[i].weekly_count

\* 2. Course counts per section: exactly the required number.
CourseCounts(v) ==
    \A s \in sections : \A i \in 1..Len(courses) :
        NumTrue(v, {<<s, d, p, courses[i].id>> : d \in DaySet, p \in periods})
            = courses[i].weekly_count

\* The teachers constrained by rule 3: every teacher string except 'None'.
Teachers == {courses[i].teacher : i \in 1..Len(courses)} \ {"None"}

\* Rule 3 summed inside each section instead of across the sections.
TeacherConflictPerSection(v) ==
    \A d \in DaySet : \A p \in periods : \A teacher \in Teachers : \A s \in sections :
        NumTrue(v, {<<s, d, p, c>> :
                        c \in {x \in CourseIds : CourseDef(x).teacher = teacher}}) <= 1

\* 3. Teacher conflict across sections.
TeacherConflict(v) ==
    \A d \in DaySet : \A p \in periods : \A teacher \in Teachers :
        NumTrue(v, {<<s, d, p, c>> : s \in sections,
                        c \in {x \in CourseIds : CourseDef(x).teacher = teacher}}) <= 1

theory_courses ==
    {c \in CourseIds : ~CourseDef(c).is_lab /\ c \notin {"PD", "LIB", "ACT", "FREE"}}

\* Rule 4 with the limit 2 in place of 1.
NoSameDayRepeatTwo(v) ==
    \A s \in sections : \A d \in DaySet : \A c \in theory_courses :
        NumTrue(v, {<<s, d, p, c>> : p \in periods}) <= 2

\* 4. No same theory course twice in one day per section.
NoSameDayRepeat(v) ==
    \A s \in sections : \A d \in DaySet : \A c \in theory_courses :
        NumTrue(v, {<<s, d, p, c>> : p \in periods}) <= 1

lab_courses == {c \in CourseIds : CourseDef(c).is_lab}

valid_lab_slots == {<<4, 5>>, <<6, 7>>}

valid_periods == {slot[1] : slot \in valid_lab_slots} \cup {slot[2] : slot \in valid_lab_slots}

\* 5a. At most two lab periods per section per day.
LabPerDay(v) ==
    \A s \in sections : \A d \in DaySet :
        NumTrue(v, {<<s, d, p, c>> : p \in periods, c \in lab_courses}) <= 2

\* Rule 5b comparing the first period of the pair with itself.
LabPairsSelf(v) ==
    \A s \in sections : \A d \in DaySet : \A c \in lab_courses :
        \A slot \in valid_lab_slots :
            Val(v, s, d, slot[1], c) = Val(v, s, d, slot[1], c)

\* 5b. Both periods of a valid pair carry the same value for a lab course.
LabPairs(v) ==
    \A s \in sections : \A d \in DaySet : \A c \in lab_courses :
        \A slot \in valid_lab_slots :
            Val(v, s, d, slot[1], c) = Val(v, s, d, slot[2], c)

\* 5c. A lab course is 0 in every period outside the valid pairs.
LabPeriods(v) ==
    \A s \in sections : \A d \in DaySet : \A c \in lab_courses :
        \A p \in periods : p \notin valid_periods => Val(v, s, d, p, c) = 0

\* 5. Lab sessions are blocks of two periods, in periods 4-5 or 6-7.
LabBlocks(v) == LabPerDay(v) /\ LabPairs(v) /\ LabPeriods(v)

\* Rule 6 skipping PD, LIB, ACT and FREE as rule 4 does.
NoConsecutiveExempting(v) ==
    \A s \in sections : \A d \in DaySet : \A p \in 1..6 :
        \A c \in CourseIds \ {"PD", "LIB", "ACT", "FREE"} :
            ~HasLabInName(c) => Val(v, s, d, p, c) + Val(v, s, d, p + 1, c) <= 1

\* 6. No course without 'LAB' in its name in two consecutive periods.
NoConsecutive(v) ==
    \A s \in sections : \A d \in DaySet : \A p \in 1..6 :
        \A c \in CourseIds :
            ~HasLabInName(c) => Val(v, s, d, p, c) + Val(v, s, d, p + 1, c) <= 1

\* Rule 7 written with <= in place of ==.
FixedSlotsAtMost(v) ==
    \A f \in fixed_slots : Val(v, f[1], f[2], f[3], f[4]) <= 1

\* 7. Fixed slots for administrative activities.
FixedSlots(v) ==
    \A f \in fixed_slots : Val(v, f[1], f[2], f[3], f[4]) = 1

RuleNames ==
    {"slot_coverage", "course_counts", "teacher_conflict", "no_same_day_repeat",
     "lab_blocks", "no_consecutive", "fixed_slots"}

\* The valuation satisfies every constraint of the groups cs.
SatisfiesAll(v, cs) ==
    /\ "course_counts" \in cs => CourseCounts(v)
    /\ "fixed_slots" \in cs => FixedSlots(v)
    /\ "slot_coverage" \in cs => SlotCoverage(v)
    /\ "lab_blocks" \in cs => LabBlocks(v)
    /\ "no_consecutive" \in cs => NoConsecutive(v)
    /\ "no_same_day_repeat" \in cs => NoSameDayRepeat(v)
    /\ "teacher_conflict" \in cs => TeacherConflict(v)

\* The valuation satisfies every constraint held by self.model.
Satisfies(v) == SatisfiesAll(v, constraints)

(***************************************************************************)
(* The valuations the solver is allowed to return in this model.           *)
(***************************************************************************)
\* Number of leading days of the week inside which the edits are made.
WindowDays == 4

\* One timetable that satisfies every constraint when FREE is in the catalog.
SeedRows ==
    [A |-> << <<"ML",  "FREE", "CN",   "FDSA",     "EVS",      "PAS",  "OS">>,
              <<"PAS", "PD",   "ML",   "EVS",      "OS",       "CN",   "ACT">>,
              <<"CN",  "EVS",  "OS",   "PAS",      "ML",       "FREE", "FDSA">>,
              <<"OS",  "PAS",  "CN",   "ML_LAB",   "ML_LAB",   "LIB",  "FDSA">>,
              <<"OS",  "EVS",  "FDSA", "PD",       "ML",       "CN",   "ACT">>,
              <<"CN",  "ML",   "FDSA", "FDSA_LAB", "FDSA_LAB", "PAS",  "OS">> >>,
     B |-> << <<"FREE", "OS",   "FDSA", "FREE", "PAS",  "CN",       "ML">>,
              <<"OS",   "ACT",  "PD",   "CN",   "FDSA", "PAS",      "ML">>,
              <<"EVS",  "CN",   "FDSA", "OS",   "PAS",  "ML_LAB",   "ML_LAB">>,
              <<"EVS",  "OS",   "PAS",  "FDSA", "CN",   "ML",       "LIB">>,
              <<"EVS",  "OS",   "CN",   "ML",   "PD",   "FDSA_LAB", "FDSA_LAB">>,
              <<"ML",   "FDSA", "OS",   "PAS",  "CN",   "EVS",      "ACT">> >>]

DayIndex(d) == CHOOSE i \in 1..Len(days) : days[i] = d

Seed == [cell \in Cells |-> {SeedRows[cell[1]][DayIndex(cell[2])][cell[3]]}]

WindowCells == {cell \in Cells : DayIndex(cell[2]) <= WindowDays}

AllCourseIds == {CoursesOf(TRUE)[i].id : i \in 1..Len(CoursesOf(TRUE))}

\* The two cells exchange their contents.
Swap(v, x, y) == [v EXCEPT ![x] = v[y], ![y] = v[x]]

\* The course at x is taken away and put at y, on top of what y holds.
Move(v, x, y) == [v EXCEPT ![x] = {}, ![y] = v[y] \cup v[x]]

\* No course variable of the cell is 1.
Drop(v, x) == [v EXCEPT ![x] = {}]

\* One more course variable of the cell is 1.
Add(v, x, c) == [v EXCEPT ![x] = v[x] \cup {c}]

Neighbours ==
    {Seed}
    \cup {Swap(Seed, x, y) : x, y \in WindowCells}
    \cup {Move(Seed, x, y) : x, y \in WindowCells}
    \cup {Drop(Seed, x) : x \in WindowCells}
    \cup {Add(Seed, x, c) : x \in WindowCells, c \in AllCourseIds}

\* A valuation gives a value only to the variables that were created.
Restrict(v) == [cell \in Cells |-> {c \in v[cell] : <<cell[1], cell[2], cell[3], c>> \in assign}]

Valuations == {Restrict(v) : v \in Neighbours}

NoValuation == [cell \in Cells |-> {}]

(***************************************************************************)
(* self.solution                                                           *)
(***************************************************************************)
None == [is_none |-> TRUE, slots |-> <<>>]

\* The loop of solve(): for each cell the courses are visited in catalog
\* order and every course whose variable is 1 overwrites the entry of the
\* cell, so the last one stays; a cell with no such course gets no entry.
LastTrue(v, cell) ==
    courses[CHOOSE i \in 1..Len(courses) :
                /\ courses[i].id \in v[cell]
                /\ \A j \in 1..Len(courses) : courses[j].id \in v[cell] => j <= i]

Extract(v) ==
    [is_none |-> FALSE,
     slots   |-> [cell \in {x \in Cells : v[x] \cap CourseIds # {}} |->
                     [course  |-> LastTrue(v, cell).id,
                      teacher |-> LastTrue(v, cell).teacher]]]

\* print_timetable: the guard and the grid of the sections.
NotPrinted == [msg |-> "", table |-> <<>>]

PrintOutput(sol) ==
    IF sol.is_none
    THEN [msg |-> "No solution to print.", table |-> <<>>]
    ELSE [msg   |-> "TIMETABLE",
          table |-> [cell \in Cells |->
                        IF cell \in DOMAIN sol.slots
                        THEN sol.slots[cell].course
                        ELSE "FREE"]]

\* generate_html: the guard, then the file is written or the write fails.
HtmlOutcomes(sol) ==
    IF sol.is_none
    THEN {"No solution to generate HTML."}
    ELSE {"saved", "Error saving HTML"}

\* No exception, and the KeyError of a dictionary lookup.
NoError == [type |-> "none", key |-> <<>>]

KeyError(k) == [type |-> "KeyError", key |-> k]

(***************************************************************************)
(* The operations                                                          *)
(***************************************************************************)
Init ==
    /\ include_free_periods \in BOOLEAN
    /\ courses = CoursesOf(include_free_periods)
    /\ fixed_slots = DefaultFixedSlots
    /\ assign = {}
    /\ constraints = {}
    /\ status = "none"
    /\ value = NoValuation
    /\ solution = None
    /\ solve_ret = "none"
    /\ printed = NotPrinted
    /\ html = "none"
    /\ run_ret = "none"
    /\ error = NoError
    /\ pc = "generate_variables"

GenerateVariables ==
    /\ pc = "generate_variables"
    /\ assign' = {<<s, d, p, c>> : s \in sections, d \in DaySet, p \in periods, c \in CourseIds}
    /\ pc' = "add_constraints"
    /\ UNCHANGED <<include_free_periods, courses, fixed_slots, constraints, status, value,
                   solution, solve_ret, printed, html, run_ret, error>>

\* Groups 1 to 6 index self.assign with keys made from self.courses; group 7
\* indexes it with the keys of fixed_slots and is reached last.  A key that
\* is not in self.assign raises KeyError there, with the key as its message,
\* and nothing in run() catches it.
AddConstraints ==
    /\ pc = "add_constraints"
    /\ IF fixed_slots \subseteq assign
       THEN /\ constraints' = RuleNames
            /\ error' = error
            /\ pc' = "solve"
       ELSE /\ constraints' = RuleNames \ {"fixed_slots"}
            /\ error' \in {KeyError(f) : f \in fixed_slots \ assign}
            /\ pc' = "KeyError"
    /\ UNCHANGED <<include_free_periods, courses, fixed_slots, assign, status, value,
                   solution, solve_ret, printed, html, run_ret>>

\* What solver.Solve hands back: OPTIMAL or FEASIBLE with a valuation that
\* satisfies the model, INFEASIBLE when there is none, UNKNOWN when the time
\* budget ran out.
SolverOutcomes ==
    LET feasible == {v \in Valuations : Satisfies(v)}
    IN  {<<st, v>> : st \in {"OPTIMAL", "FEASIBLE"}, v \in feasible}
        \cup {<<"UNKNOWN", NoValuation>>}
        \cup (IF feasible = {} THEN {<<"INFEASIBLE", NoValuation>>} ELSE {})

\* The status test accepting every status but INFEASIBLE.
SolutionFoundUnlessInfeasible(st) == st # "INFEASIBLE"

SolutionFound(st) == st = "OPTIMAL" \/ st = "FEASIBLE"

Solve ==
    /\ pc = "solve"
    /\ \E out \in SolverOutcomes :
        /\ status' = out[1]
        /\ value' = out[2]
        /\ IF SolutionFound(out[1])
           THEN /\ solution' = Extract(out[2])
                /\ solve_ret' = "True"
           ELSE /\ solution' = solution
                /\ solve_ret' = "False"
    /\ pc' = "solved"
    /\ UNCHANGED <<include_free_periods, courses, fixed_slots, assign, constraints,
                   printed, html, run_ret, error>>

\* print_timetable: called by run() after a successful solve(), and open to
\* the caller once run() has returned.
PrintTimetable ==
    /\ \/ pc = "solved" /\ solve_ret = "True" /\ pc' = "generate_html"
       \/ pc = "done" /\ pc' = pc
    /\ printed' = PrintOutput(solution)
    /\ UNCHANGED <<include_free_periods, courses, fixed_slots, assign, constraints, status,
                   value, solution, solve_ret, html, run_ret, error>>

\* generate_html: called by run() after print_timetable, and open to the
\* caller once run() has returned.
GenerateHtml ==
    /\ \/ pc = "generate_html" /\ pc' = "return"
       \/ pc = "done" /\ pc' = pc
    /\ html' \in HtmlOutcomes(solution)
    /\ UNCHANGED <<include_free_periods, courses, fixed_slots, assign, constraints, status,
                   value, solution, solve_ret, printed, run_ret, error>>

\* The two return statements of run().
RunReturn ==
    /\ \/ pc = "return" /\ run_ret' = "True"
       \/ pc = "solved" /\ solve_ret = "False" /\ run_ret' = "False"
    /\ pc' = "done"
    /\ UNCHANGED <<include_free_periods, courses, fixed_slots, assign, constraints, status,
                   value, solution, solve_ret, printed, html, error>>

Next ==
    \/ GenerateVariables
    \/ AddConstraints
    \/ Solve
    \/ PrintTimetable
    \/ GenerateHtml
    \/ RunReturn

Spec == Init /\ [][Next]_vars

(***************************************************************************)
(* The same program with the fixed-slot set as input configuration: the    *)
(* built-in set, and sets in which one tuple names a course that is not in *)
(* the catalog.                                                            *)
(***************************************************************************)
FixedSlotConfigs ==
    { DefaultFixedSlots,
      DefaultFixedSlots \cup {<<"A", "Mon", 1, "YOGA">>},
      (DefaultFixedSlots \ {<<"B", "Tue", 3, "PD">>}) \cup {<<"B", "Tue", 3, "PDX">>} }

InitConfig ==
    /\ include_free_periods \in BOOLEAN
    /\ courses = CoursesOf(include_free_periods)
    /\ fixed_slots \in FixedSlotConfigs
    /\ assign = {}
    /\ constraints = {}
    /\ status = "none"
    /\ value = NoValuation
    /\ solution = None
    /\ solve_ret = "none"
    /\ printed = NotPrinted
    /\ html = "none"
    /\ run_ret = "none"
    /\ error = NoError
    /\ pc = "generate_variables"

SpecConfig == InitConfig /\ [][Next]_vars

(***************************************************************************)
(* The extraction loop of solve() on its own: it is handed a valuation of  *)
(* the variables, whatever constraints the model held, and builds          *)
(* self.solution from it.                                                  *)
(***************************************************************************)
InitExtract ==
    /\ include_free_periods \in BOOLEAN
    /\ courses = CoursesOf(include_free_periods)
    /\ fixed_slots = DefaultFixedSlots
    /\ assign = {<<s, d, p, c>> : s \in sections, d \in DaySet, p \in periods, c \in CourseIds}
    /\ constraints = RuleNames
    /\ status = "FEASIBLE"
    /\ value \in Valuations
    /\ solution = None
    /\ solve_ret = "none"
    /\ printed = NotPrinted
    /\ html = "none"
    /\ run_ret = "none"
    /\ error = NoError
    /\ pc = "extract"

ExtractSolution ==
    /\ pc = "extract"
    /\ solution' = Extract(value)
    /\ solve_ret' = "True"
    /\ pc' = "extracted"
    /\ UNCHANGED <<include_free_periods, courses, fixed_slots, assign, constraints, status,
                   value, printed, html, run_ret, error>>

SpecExtract == InitExtract /\ [][ExtractSolution]_vars

(***************************************************************************)
(* Properties                                                              *)
(***************************************************************************)
HasSolution == ~solution.is_none

\* The periods of a section and day whose Solution cell holds a course of cs.
PeriodsHolding(s, d, cs) ==
    {p \in periods : /\ <<s, d, p>> \in DOMAIN solution.slots
                     /\ solution.slots[<<s, d, p>>].course \in cs}

\* The cells of a section that hold the course.
CellsHolding(s, c) ==
    {cell \in DOMAIN solution.slots : cell[1] = s /\ solution.slots[cell].course = c}

\* C1: in every Solution each (section, day, period) has exactly one course
\* variable true when free periods are disabled and at most one when they
\* are enabled; with free periods disabled no cell of the Solution is empty.
C1_OneCoursePerSlot ==
    HasSolution =>
        \A cell \in Cells :
            LET n == Cardinality(value[cell] \cap CourseIds)
            IN  /\ IF include_free_periods THEN n \in {0, 1} ELSE n = 1
                /\ (cell \in DOMAIN solution.slots) <=> (n >= 1)
                /\ ~include_free_periods => cell \in DOMAIN solution.slots

C1_Witness ==
    /\ HasSolution
    /\ include_free_periods
    /\ \A cell \in Cells : Cardinality(value[cell]) = 1 /\ cell \in DOMAIN solution.slots

RealTeachers == {courses[i].teacher : i \in 1..Len(courses)} \ {"All Staff", "None"}

\* The sections whose Solution cell at (day, period) is taught by the teacher.
SectionsTaughtBy(teacher, d, p) ==
    {s \in sections : /\ <<s, d, p>> \in DOMAIN solution.slots
                      /\ solution.slots[<<s, d, p>>].teacher = teacher}

\* C3: in every Solution, for every (day, period) and every real teacher, at
\* most one cell across the sections holds a course taught by that teacher.
C3_TeacherNonOverlap ==
    HasSolution =>
        \A d \in DaySet : \A p \in periods : \A teacher \in RealTeachers :
            Cardinality(SectionsTaughtBy(teacher, d, p)) <= 1

C3_Witness ==
    /\ HasSolution
    /\ value # Seed
    /\ \E d \in DaySet : \E p \in periods :
        /\ solution.slots[<<"A", d, p>>].course \in {"CN", "PD", "LIB"}
        /\ solution.slots[<<"B", d, p>>].course \notin {"CN", "PD", "LIB"}

\* C4: in every Solution, for every section and day, the periods occupied by
\* lab courses are none, or exactly {4,5} or {6,7} with one lab course in both
\* periods of the pair.
C4_LabBlocks ==
    HasSolution =>
        \A s \in sections : \A d \in DaySet :
            LET L == PeriodsHolding(s, d, {"FDSA_LAB", "ML_LAB"})
            IN  \/ L = {}
                \/ /\ L \in {{4, 5}, {6, 7}}
                   /\ \E c \in {"FDSA_LAB", "ML_LAB"} : PeriodsHolding(s, d, {c}) = L

C4_Witness ==
    /\ HasSolution
    /\ PeriodsHolding("A", "Thu", {"ML_LAB"}) = {4, 5}
    /\ PeriodsHolding("B", "Wed", {"ML_LAB"}) = {6, 7}
    /\ PeriodsHolding("A", "Mon", {"FDSA_LAB", "ML_LAB"}) = {}

\* C5: in every Solution, the cell of every fixed slot holds the course of
\* that fixed slot and no other.
C5_FixedSlotsHeld ==
    HasSolution =>
        \A f \in fixed_slots :
            /\ <<f[1], f[2], f[3]>> \in DOMAIN solution.slots
            /\ solution.slots[<<f[1], f[2], f[3]>>].course = f[4]
            /\ value[<<f[1], f[2], f[3]>>] = {f[4]}

C5_Witness ==
    /\ HasSolution
    /\ value # Seed
    /\ solution.slots[<<"A", "Tue", 2>>].course = "PD"

\* C6: in every Solution, for every section and day, each of PAS, OS, ML,
\* FDSA, CN and EVS occupies at most one period of the day; PD, LIB, ACT and
\* FREE may occupy more than one.
C6_NoSameDayRepeat ==
    HasSolution =>
        \A s \in sections : \A d \in DaySet :
            \A c \in {"PAS", "OS", "ML", "FDSA", "CN", "EVS"} :
                Cardinality(PeriodsHolding(s, d, {c})) <= 1

C6_Witness ==
    /\ HasSolution
    /\ \E s \in sections : \E d \in DaySet : \E c \in {"PD", "LIB", "ACT", "FREE"} :
        Cardinality(PeriodsHolding(s, d, {c})) = 2
    /\ \E s \in sections : \E d \in DaySet :
        \A c \in {"PAS", "OS", "ML", "FDSA", "CN", "EVS"} :
            Cardinality(PeriodsHolding(s, d, {c})) = 1

\* C7: for a lab course weekly_count counts two-period sessions, so in every
\* Solution each section has 2 x weekly_count cells of each lab course.
C7_LabSessionsTwoPeriodsEach ==
    HasSolution =>
        \A s \in sections : \A i \in 1..Len(courses) :
            courses[i].is_lab =>
                Cardinality(CellsHolding(s, courses[i].id)) = 2 * courses[i].weekly_count

\* No two sections hold, at one (day, period), courses of one real teacher.
RealTeacherNonOverlap(v) ==
    \A d \in DaySet : \A p \in periods : \A teacher \in RealTeachers :
        NumTrue(v, {<<s, d, p, c>> : s \in sections,
                        c \in {x \in CourseIds : CourseDef(x).teacher = teacher}}) <= 1

\* C8: courses whose teacher is 'None' or 'All Staff' are exempt from the
\* teacher non-overlap rule: a valuation that satisfies every other
\* constraint group and in which no real teacher is in two sections at once
\* is accepted by the constraint set, also when both sections hold ACT at
\* the same (day, period).
C8_SentinelTeachersExempt ==
    pc = "solve" =>
        \A v \in Valuations :
            (SatisfiesAll(v, constraints \ {"teacher_conflict"}) /\ RealTeacherNonOverlap(v))
                => Satisfies(v)

\* No course other than PD, LIB, ACT and FREE, and no lab course aside, is 1
\* in two consecutive periods of a section and day.
OthersNotConsecutive(v) ==
    \A s \in sections : \A d \in DaySet : \A p \in 1..6 :
        \A c \in CourseIds \ {"PD", "LIB", "ACT", "FREE", "FDSA_LAB", "ML_LAB"} :
            Val(v, s, d, p, c) + Val(v, s, d, p + 1, c) <= 1

C10_SolveAllOrNothing ==
    /\ solve_ret = "True" =>
        /\ status \in {"OPTIMAL", "FEASIBLE"}
        /\ constraints = RuleNames
        /\ DOMAIN value = Cells
        /\ Satisfies(value)
        /\ solution = Extract(value)
    /\ (solve_ret # "none" /\ status \notin {"OPTIMAL", "FEASIBLE"}) =>
        /\ solve_ret = "False"
        /\ solution = None
        /\ printed.table = <<>>
        /\ html \in {"none", "No solution to generate HTML."}
        /\ run_ret # "True"

C10_Witness ==
    /\ pc = "done"
    /\ include_free_periods
    /\ status = "UNKNOWN"
    /\ solve_ret = "False"
    /\ run_ret = "False"
    /\ solution = None
    /\ printed.msg = "No solution to print."
    /\ html = "No solution to generate HTML."

UnknownCourseSlots == {f \in fixed_slots : f[4] \notin CourseIds}

\* C12: a fixed slot naming a course that is not in the catalog is rejected
\* before any decision variable or constraint is constructed, with a
\* diagnostic identifying the offending tuple.
C12_ConfigErrorRejectedBeforeConstruction ==
    UnknownCourseSlots # {} =>
        /\ assign = {}
        /\ constraints = {}
        /\ pc # "generate_variables" => (error # NoError /\ error.key \in UnknownCourseSlots)

\* The sum of the weekly counts of a catalog.
RECURSIVE QuotaTotal(_)
QuotaTotal(crs) ==
    IF crs = <<>> THEN 0 ELSE Head(crs).weekly_count + QuotaTotal(Tail(crs))

\* The number of (day, period) cells of one section.
CellsPerSection == Len(days) * Cardinality(periods)

\* C13: with include_free_periods = False the quotas of the catalog sum to 40
\* cells per section while rule 1 needs all 42 cells filled, so no valuation
\* satisfies the model, solve() returns False and self.solution stays None;
\* a Solution exists only with FREE in the catalog.
C13_NoSolutionWithoutFree ==
    /\ ~include_free_periods =>
        /\ QuotaTotal(courses) = 40
        /\ CellsPerSection = 42
        /\ pc = "solve" => \A v \in Valuations : ~Satisfies(v)
        /\ status \in {"none", "INFEASIBLE", "UNKNOWN"}
        /\ solve_ret # "True"
        /\ solution = None
    /\ HasSolution =>
        /\ include_free_periods
        /\ QuotaTotal(courses) = CellsPerSection

C13_Witness ==
    /\ ~include_free_periods
    /\ pc = "done"
    /\ constraints = RuleNames
    /\ status = "INFEASIBLE"
    /\ solve_ret = "False"
    /\ run_ret = "False"
    /\ solution = None

====
